---- MODULE Spec2Model ----
(***************************************************************************)
(* Storage layer of lesstinydb (tinydb/storages.py): the Storage base      *)
(* class with its transaction protocol, the file backed JSONStorage and    *)
(* the MemoryStorage.                                                      *)
(*                                                                         *)
(* One behaviour follows one backend: Init picks the backend, the          *)
(* operations of the base class dispatch on it as the abstract methods     *)
(* do.  In the file world NInst storage instances are opened on the same   *)
(* path and share the main file, the backup file and the lock file.        *)
(***************************************************************************)
EXTENDS Integers, Sequences, FiniteSets, TLC

(* ---------------- bounds ---------------- *)
\* number of storage instances opened on the same path
NInst == 2
\* record ids that may occur in a table of a snapshot: 1..MaxRecs
MaxRecs == 1
\* serializations a file written in an append mode may come to hold
MaxAppend == 2

Inst == 1..NInst
RecIds == 1..MaxRecs
TableNames == {"t"}

(* ---------------- values ---------------- *)
\* A snapshot is a mapping table name -> (record id -> record); records are
\* the empty record {}.  It is kept as a set of <<table, set of ids>>.
\* Every value a read can return has the same shape [k, v].
Snap(tabs) == [k |-> "snap", v |-> tabs]
None == [k |-> "None", v |-> {}]
Snapshots == {Snap(tabs) : tabs \in {{}} \cup {{<<t, R>>} : t \in TableNames, R \in SUBSET RecIds}}

Min(S) == CHOOSE x \in S : \A y \in S : x <= y
Digit == <<"1", "2", "3", "4", "5", "6", "7", "8", "9">>

\* json.dumps of the records of one table, ascending ids: "1": {}, "2": {}
RECURSIVE DumpRecs(_, _)
DumpRecs(R, first) ==
    IF R = {} THEN <<>>
    ELSE LET m == Min(R) IN
         (IF first THEN <<>> ELSE <<",", " ">>)
         \o <<"\"", Digit[m], "\"", ":", " ", "{", "}">>
         \o DumpRecs(R \ {m}, FALSE)

\* json.dumps of the tables: "t": {...}
RECURSIVE DumpTabs(_, _)
DumpTabs(tabs, first) ==
    IF tabs = {} THEN <<>>
    ELSE LET e == CHOOSE x \in tabs : TRUE IN
         (IF first THEN <<>> ELSE <<",", " ">>)
         \o <<"\"", e[1], "\"", ":", " ", "{">> \o DumpRecs(e[2], TRUE) \o <<"}">>
         \o DumpTabs(tabs \ {e}, FALSE)

\* json.dumps(data) with default formatting, as a sequence of characters
dumps(s) == <<"{">> \o DumpTabs(s.v, TRUE) \o <<"}">>

\* json.load: the snapshot whose serialization the text is; any other text
\* (empty, truncated, a document followed by extra data) does not decode
Decodes(text) == \E s \in Snapshots : dumps(s) = text
loads(text) == CHOOSE s \in Snapshots : dumps(s) = text

\* what a read of a file holding `text` returns: the len-0 file is "no data"
Corrupt == [k |-> "JSONDecodeError", v |-> {}]
FileValue(text) ==
    IF Len(text) = 0 THEN None
    ELSE IF Decodes(text) THEN loads(text) ELSE Corrupt

\* seek(0); write(serialized): the characters replace those at 0..n-1 and
\* leave everything behind them in place; the position is then n
Overwrite(text, new) ==
    new \o (IF Len(text) > Len(new) THEN SubSeq(text, Len(new) + 1, Len(text)) ELSE <<>>)
\* truncate() cuts the file at the handle's position
Truncate(text, pos) == IF Len(text) > pos THEN SubSeq(text, 1, pos) ELSE text

\* the access modes of open() the file backend is constructed with
Modes == {"r", "r+", "w", "w+", "a", "a+"}
Readable(m) == m \in {"r", "r+", "w+", "a+"}
Writable(m) == m # "r"
Appends(m) == m \in {"a", "a+"}
\* open(path, mode): the modes 'w' and 'w+' cut the file to length 0
Opened(text, m) == IF m \in {"w", "w+"} THEN <<>> ELSE text

\* the number of serialized documents a text holds one behind the other:
\* the closing braces at the end of the text or right before the opening
\* brace of the next document
CountDocs(text) ==
    Cardinality({k \in 1..Len(text) :
        text[k] = "}" /\ (k = Len(text) \/ text[k + 1] = "{")})

(* ---------------- state ---------------- *)
VARIABLES
    backend,         \* "json" or "memory": the concrete Storage class in use
    file,            \* content of the main file at `path`
    backup,          \* the file `path`.backup: [exists, text]
    flock,           \* instances whose lock-file description holds LOCK_EX
    in_transaction,  \* Storage._in_transaction, per instance
    handle,          \* JSONStorage._handle: "open" or "closed"
    mode,            \* JSONStorage._mode, per instance
    writing,         \* the snapshot a write has flushed and not yet truncated after
    lock_file,       \* JSONStorage._lock_file: "None" or "open"
    memory,          \* MemoryStorage.memory: 0 (None) or an object of heap
    mbackup,         \* MemoryStorage._backup: 0 (None) or an object of heap
    heap,            \* the dict objects memory and _backup may refer to
    pc,              \* where each instance's caller stands
    last,            \* the call that returned last and how it ended
    tx               \* per instance: what its open transaction has seen

progVars == <<backend, file, backup, flock, in_transaction, handle, mode, writing,
              lock_file, memory, mbackup, heap>>
vars == <<backend, file, backup, flock, in_transaction, handle, mode, writing,
          lock_file, memory, mbackup, heap, pc, last, tx>>

\* objects of the in-memory backend: at most the live snapshot and its backup
Obj == {1, 2}
\* the instance whose calls the sequential behaviours follow; the others
\* are opened on the same path and stay idle there
Study == {1}

NoFile == [exists |-> FALSE, text |-> <<>>]
IsFile(text) == [exists |-> TRUE, text |-> text]

\* the program state as one value, so that a method can call another
Cur == [file |-> file, backup |-> backup, flock |-> flock,
        in_transaction |-> in_transaction, handle |-> handle,
        mode |-> mode, writing |-> writing, lock_file |-> lock_file,
        memory |-> memory, mbackup |-> mbackup,
        heap |-> heap, err |-> "ok"]

Apply(st) ==
    /\ file' = st.file
    /\ backup' = st.backup
    /\ flock' = st.flock
    /\ in_transaction' = st.in_transaction
    /\ handle' = st.handle
    /\ mode' = st.mode
    /\ writing' = st.writing
    /\ lock_file' = st.lock_file
    /\ memory' = st.memory
    /\ mbackup' = st.mbackup
    /\ heap' = st.heap
    /\ backend' = backend

Raise(st, e) == [st EXCEPT !.err = e]

ErrVal(e) == [k |-> e, v |-> {}]

(* ---------------- JSONStorage ---------------- *)
\* I/O faults the operating system may answer a call with
BeginFaults == {"none", "lock_open", "main_read", "backup_open"}
CommitFaults == {"none", "sync", "remove"}
RollbackFaults == {"none", "backup_read", "main_open", "reopen", "remove"}
\* the faults a call can meet: none when it is rejected before any I/O
FaultsIf(runs, faults) == IF runs THEN faults ELSE {"none"}

\* JSONStorage.read: the size of the file, then json.load from the start;
\* a handle opened for writing only can seek and tell but not read
JSONStorage_read(st, i) ==
    IF st.handle[i] = "closed" THEN ErrVal("ValueError")
    ELSE IF Len(st.file) = 0 THEN None
    ELSE IF ~Readable(st.mode[i]) THEN ErrVal("UnsupportedOperation")
    ELSE FileValue(st.file)

\* (mutant) a write that does not look at the access mode
Mutant_flush_ignores_mode(st, i, s) ==
    IF st.handle[i] = "closed" THEN Raise(st, "ValueError")
    ELSE [st EXCEPT !.file = Overwrite(st.file, dumps(s)), !.writing[i] = s]

\* JSONStorage.write up to fsync: seek(0), write, flush, fsync.  A handle
\* opened read-only rejects the write; one opened in an append mode writes
\* at the end of the file wherever it has seeked to
JSONStorage_flush(st, i, s) ==
    IF st.handle[i] = "closed" THEN Raise(st, "ValueError")
    ELSE IF ~Writable(st.mode[i]) THEN Raise(st, "IOError")
    ELSE LET serialized == dumps(s) IN
         [st EXCEPT !.file = IF Appends(st.mode[i]) THEN st.file \o serialized
                              ELSE Overwrite(st.file, serialized),
                    !.writing[i] = s]

\* the truncate() that ends JSONStorage.write: it cuts the file at the
\* position of the handle, which is behind what was written (in an append
\* mode: the end of the file)
JSONStorage_truncate(st, i) ==
    [st EXCEPT !.file = IF Appends(st.mode[i]) THEN st.file
                         ELSE Truncate(st.file, Len(dumps(st.writing[i]))),
               !.writing[i] = None]

\* (mutant) write without the final truncate()
Mutant_write_no_truncate(st, i, s) ==
    LET r == JSONStorage_flush(st, i, s) IN
    IF r.err # "ok" THEN r ELSE [r EXCEPT !.writing[i] = None]

\* JSONStorage.write: seek(0), write, flush, fsync, truncate()
JSONStorage_write(st, i, s) ==
    LET r == JSONStorage_flush(st, i, s) IN
    IF r.err # "ok" THEN r ELSE JSONStorage_truncate(r, i)

\* JSONStorage.close
JSONStorage_close(st, i) == [st EXCEPT !.handle[i] = "closed"]

\* (mutant) a lock that does not exclude the other holders
Mutant_CanLock_shared(st, i) == TRUE

\* flock(LOCK_EX) returns when no other open file description holds the lock
CanLock(st, i) == st.flock \subseteq {i}

\* _acquire_lock up to the flock call: the lock file is opened once
JSONStorage_open_lock(st, i, f) ==
    IF st.lock_file[i] = "None"
    THEN IF f = "lock_open" THEN Raise(st, "OSError")
         ELSE [st EXCEPT !.lock_file[i] = "open"]
    ELSE st

\* _release_lock: flock(LOCK_UN) on the instance's lock file
JSONStorage_release_lock(st, i) ==
    IF st.lock_file[i] = "None" THEN Raise(st, "AttributeError")
    ELSE [st EXCEPT !.flock = st.flock \ {i}]

\* (mutant) the backup file is opened so that an existing one is kept
Mutant_locked_begin_keeps_backup(st, i, f) ==
    LET held == [st EXCEPT !.flock = st.flock \cup {i}] IN
    IF f \in {"main_read", "backup_open"} THEN Raise(held, "OSError")
    ELSE IF held.backup.exists THEN held
    ELSE [held EXCEPT !.backup = IsFile(held.file)]

\* _begin_transaction from the moment flock(LOCK_EX) returns: copy the main
\* file into the backup file, which open(..., 'w') creates or overwrites
JSONStorage_locked_begin(st, i, f) ==
    LET held == [st EXCEPT !.flock = st.flock \cup {i}] IN
    IF f \in {"main_read", "backup_open"} THEN Raise(held, "OSError")
    ELSE [held EXCEPT !.backup = IsFile(held.file)]

\* (mutant) commit that does not unlock
Mutant_commit_keeps_lock(st, i, f) ==
    IF st.handle[i] = "closed" THEN Raise(st, "ValueError")
    ELSE IF f = "sync" THEN Raise(st, "OSError")
    ELSE IF st.backup.exists /\ f = "remove" THEN Raise(st, "OSError")
    ELSE [st EXCEPT !.backup = NoFile]

\* _commit_transaction
JSONStorage_commit_transaction(st, i, f) ==
    IF st.handle[i] = "closed" THEN Raise(st, "ValueError")
    ELSE IF f = "sync" THEN Raise(st, "OSError")
    ELSE IF st.backup.exists /\ f = "remove" THEN Raise(st, "OSError")
    ELSE JSONStorage_release_lock([st EXCEPT !.backup = NoFile], i)

\* the try block of _rollback_transaction: close, read the backup, rewrite
\* the main file, reopen the handle
JSONStorage_restore(st, i, f) ==
    LET closed == [st EXCEPT !.handle[i] = "closed"] IN
    IF ~closed.backup.exists THEN Raise(closed, "FileNotFoundError")
    ELSE IF f \in {"backup_read", "main_open"} THEN Raise(closed, "OSError")
    ELSE LET restored == [closed EXCEPT !.file = closed.backup.text] IN
         IF f = "reopen" THEN Raise(restored, "OSError")
         ELSE [restored EXCEPT !.file = Opened(restored.file, st.mode[i]), !.handle[i] = "open"]

\* the finally block of _rollback_transaction; an error it raises replaces
\* the one of the try block
JSONStorage_cleanup(st, i, f) ==
    IF st.backup.exists /\ f = "remove" THEN Raise(st, "OSError")
    ELSE LET r == JSONStorage_release_lock([st EXCEPT !.backup = NoFile, !.err = "ok"], i) IN
         IF r.err = "ok" THEN Raise(r, st.err) ELSE r

\* _rollback_transaction
JSONStorage_rollback_transaction(st, i, f) ==
    JSONStorage_cleanup(JSONStorage_restore(st, i, f), i, f)

(* ---------------- MemoryStorage ---------------- *)
\* objects nothing refers to any more are forgotten
Collect(st) ==
    [st EXCEPT !.heap = [o \in Obj |->
        IF \E i \in Inst : st.memory[i] = o \/ st.mbackup[i] = o THEN st.heap[o] ELSE None]]

\* the object of a dict the caller builds: none a storage still refers to
\* (the one memory[i] is about to let go of may be reused)
Fresh(st, i) == CHOOSE o \in Obj : \A j \in Inst : st.mbackup[j] # o /\ (j # i => st.memory[j] # o)

\* MemoryStorage.read returns the object itself
MemoryStorage_read(st, i) == IF st.memory[i] = 0 THEN None ELSE st.heap[st.memory[i]]

\* MemoryStorage.write with a dict the caller has just built
MemoryStorage_write(st, i, s) ==
    LET o == Fresh(st, i) IN
    Collect([st EXCEPT !.memory[i] = o, !.heap[o] = s])

\* (mutant) the backup is the live object itself
Mutant_DeepCopy_alias(st, i) == [st EXCEPT !.mbackup[i] = st.memory[i]]

\* json.loads(json.dumps(memory)): a new object
DeepCopy(st, i) ==
    LET o == CHOOSE x \in Obj : \A j \in Inst : st.memory[j] # x /\ st.mbackup[j] # x IN
    [st EXCEPT !.mbackup[i] = o, !.heap[o] = loads(dumps(st.heap[st.memory[i]]))]

\* MemoryStorage._begin_transaction
MemoryStorage_begin_transaction(st, i) ==
    IF st.memory[i] # 0 THEN DeepCopy(st, i) ELSE [st EXCEPT !.mbackup[i] = 0]

\* MemoryStorage._commit_transaction
MemoryStorage_commit_transaction(st, i) == Collect([st EXCEPT !.mbackup[i] = 0])

\* MemoryStorage._rollback_transaction
MemoryStorage_rollback_transaction(st, i) ==
    Collect([st EXCEPT !.memory[i] = st.mbackup[i], !.mbackup[i] = 0])

(* ---------------- Storage (base class) ---------------- *)
\* (mutant) begin without the check of the flag
Mutant_begin_no_guard(st, i, f) ==
    LET s1 == [st EXCEPT !.in_transaction[i] = TRUE] IN
    IF backend = "memory" THEN MemoryStorage_begin_transaction(s1, i)
    ELSE JSONStorage_open_lock(s1, i, f)

\* Storage.begin up to the point where the file backend waits for the lock
Storage_begin(st, i, f) ==
    IF st.in_transaction[i] THEN Raise(st, "TransactionInProgress")
    ELSE LET s1 == [st EXCEPT !.in_transaction[i] = TRUE] IN
         IF backend = "memory" THEN MemoryStorage_begin_transaction(s1, i)
         ELSE JSONStorage_open_lock(s1, i, f)

\* (mutant) commit that clears the flag only when the backend logic returned
Mutant_commit_no_finally(st, i, f) ==
    IF ~st.in_transaction[i] THEN Raise(st, "NoTransaction")
    ELSE LET r == IF backend = "memory" THEN MemoryStorage_commit_transaction(st, i)
                  ELSE JSONStorage_commit_transaction(st, i, f) IN
         IF r.err = "ok" THEN [r EXCEPT !.in_transaction[i] = FALSE] ELSE r

\* Storage.commit: the backend logic, and the flag cleared in `finally`
Storage_commit(st, i, f) ==
    IF ~st.in_transaction[i] THEN Raise(st, "NoTransaction")
    ELSE LET r == IF backend = "memory" THEN MemoryStorage_commit_transaction(st, i)
                  ELSE JSONStorage_commit_transaction(st, i, f) IN
         [r EXCEPT !.in_transaction[i] = FALSE]

\* (mutant) rollback without the check of the flag
Mutant_rollback_no_guard(st, i, f) ==
    LET r == IF backend = "memory" THEN MemoryStorage_rollback_transaction(st, i)
             ELSE JSONStorage_rollback_transaction(st, i, f) IN
    [r EXCEPT !.in_transaction[i] = FALSE]

\* Storage.rollback: the backend logic, and the flag cleared in `finally`
Storage_rollback(st, i, f) ==
    IF ~st.in_transaction[i] THEN Raise(st, "NoTransaction")
    ELSE LET r == IF backend = "memory" THEN MemoryStorage_rollback_transaction(st, i)
                  ELSE JSONStorage_rollback_transaction(st, i, f) IN
         [r EXCEPT !.in_transaction[i] = FALSE]

\* Storage.transaction after the block: commit; if the block or the commit
\* raised, rollback and re-raise.  An error raised by rollback itself is the
\* one that leaves the `except` clause.
Storage_transaction_exit(st, i, blockErr, fc, fr) ==
    LET c == IF blockErr = "ok" THEN Storage_commit(st, i, fc) ELSE Raise(st, blockErr) IN
    IF c.err = "ok" THEN c
    ELSE LET r == Storage_rollback([c EXCEPT !.err = "ok"], i, fr) IN
         IF r.err = "ok" THEN Raise(r, c.err) ELSE r

\* Storage.begin as a whole, for a caller that finds the lock free
Storage_begin_locked(st, i, f) ==
    LET r == Storage_begin(st, i, f) IN
    IF r.err # "ok" \/ backend = "memory" THEN r ELSE JSONStorage_locked_begin(r, i, f)

\* The generator of Storage.transaction, suspended at its yield, is let go
\* of: the interpreter closes it, GeneratorExit is raised at the yield, the
\* bare `except:` catches it and rolls back.  An error of that rollback is
\* reported by the interpreter and reaches no caller.
Storage_transaction_close(st, i, fr) ==
    [Storage_rollback(st, i, fr) EXCEPT !.err = "ok"]

\* Storage.__enter__: a new generator of transaction() is run up to its
\* yield, and nothing keeps it afterwards
Storage_enter(st, i, fb, fr) ==
    LET b == Storage_begin_locked(st, i, fb) IN
    IF b.err # "ok" THEN b ELSE Storage_transaction_close(b, i, fr)

\* Storage.__exit__: the __exit__ of another new generator of transaction(),
\* one that has not been started.  After a body that raised, the error is
\* thrown into it and comes straight back; after a normal body it is run up
\* to its yield, which is reported as "generator didn't stop"; it is then
\* let go of as well.
Storage_exit(st, i, bodyErr, fb, fr) ==
    IF bodyErr # "ok" THEN Raise(st, bodyErr)
    ELSE LET b == Storage_begin_locked(st, i, fb) IN
         IF b.err # "ok" THEN b
         ELSE Raise(Storage_transaction_close(b, i, fr), "GeneratorDidntStop")

(* ---------------- callers ---------------- *)
NoTx == ErrVal("NoTx")
Foreign == ErrVal("Foreign")

\* What is remembered of a transaction whose begin returned: the snapshot
\* visible right before begin (pre), the snapshot the transaction wrote last
\* (cur; pre while it has written nothing, Foreign once another instance has
\* written the file), the content of the main file at begin (text), the
\* backup file that begin found left behind (stale), whether a second begin
\* has been rejected meanwhile (nested), and whether the caller has changed
\* the live object in place meanwhile (mutated).
NoTxInfo == [pre |-> NoTx, cur |-> NoTx, text |-> <<>>, stale |-> NoFile, nested |-> FALSE,
             mutated |-> FALSE]

\* The record of the call that returned last: the operation, the instance, the
\* error that reached the caller ("ok": none), a value (read: the result;
\* write: the argument), the snapshot visible before the call, the backend
\* logic that ran, for the scope the error it was left with (of the block or
\* of commit), and the transaction the call ended.
Ev(op, i, err, val, ran, orig, info) ==
    [op |-> op, inst |-> i, err |-> err, val |-> val, ran |-> ran, orig |-> orig, tx |-> info]

\* the snapshot a reader of the storage would be given
Visible(st, i) == IF backend = "json" THEN FileValue(st.file) ELSE MemoryStorage_read(st, i)

\* read() of instance i
Storage_read(st, i) == IF backend = "json" THEN JSONStorage_read(st, i) ELSE MemoryStorage_read(st, i)

Callable(i) == pc[i] \in {"idle", "block", "with"}
Waiting == {"wait_idle", "wait_block", "wait_scope"}

\* the storages right after construction: the instances of Study opened in
\* mode m on a file that held `text`, the others in the default mode
Constructed(m, text) ==
    /\ file = Opened(text, m)
    /\ backup = NoFile
    /\ flock = {}
    /\ in_transaction = [i \in Inst |-> FALSE]
    /\ handle = [i \in Inst |-> "open"]
    /\ mode = [i \in Inst |-> IF i \in Study THEN m ELSE "r+"]
    /\ writing = [i \in Inst |-> None]
    /\ lock_file = [i \in Inst |-> "None"]
    /\ memory = [i \in Inst |-> 0]
    /\ mbackup = [i \in Inst |-> 0]
    /\ heap = [o \in Obj |-> None]
    /\ pc = [i \in Inst |-> "idle"]
    /\ last = Ev("init", 0, "ok", None, {}, "ok", NoTxInfo)
    /\ tx = [i \in Inst |-> NoTxInfo]

\* a new file, the default access mode, either backend
Init ==
    /\ backend \in {"json", "memory"}
    /\ Constructed("r+", <<>>)

\* Instance i changed the stored snapshot to s (ends: and its transaction is
\* over): its own transaction wrote s, the open transactions of the others
\* on the same file have been written over.
Wrote(i, s, ends) ==
    tx' = [j \in Inst |->
        IF j = i THEN (IF ends THEN NoTxInfo
                       ELSE IF tx[j] = NoTxInfo THEN tx[j] ELSE [tx[j] EXCEPT !.cur = s])
        ELSE IF tx[j] = NoTxInfo \/ backend = "memory" THEN tx[j]
        ELSE [tx[j] EXCEPT !.cur = Foreign]]

Read(i) ==
    /\ Callable(i)
    /\ LET r == Storage_read(Cur, i) IN
       last' = IF r.k \in {"snap", "None"} THEN Ev("read", i, "ok", r, {}, "ok", NoTxInfo)
               ELSE Ev("read", i, r.k, None, {}, "ok", NoTxInfo)
    /\ UNCHANGED <<progVars, pc, tx>>

Write(i, s) ==
    /\ Callable(i)
    /\ LET r == IF backend = "json" THEN JSONStorage_write(Cur, i, s) ELSE MemoryStorage_write(Cur, i, s) IN
       /\ Appends(mode[i]) => CountDocs(r.file) <= MaxAppend
       /\ Apply(r)
       /\ last' = Ev("write", i, r.err, s, {}, "ok", [NoTxInfo EXCEPT !.pre = Visible(Cur, i)])
       /\ IF r.err = "ok" THEN Wrote(i, s, FALSE) ELSE UNCHANGED tx
    /\ UNCHANGED pc

\* the caller changes in place the dict that read returned
Mutate(i, s) ==
    /\ Callable(i)
    /\ backend = "memory"
    /\ memory[i] # 0
    /\ heap[memory[i]] # s
    /\ heap' = [heap EXCEPT ![memory[i]] = s]
    /\ last' = Ev("mutate", i, "ok", s, {}, "ok", NoTxInfo)
    /\ tx' = [tx EXCEPT ![i] = IF tx[i] = NoTxInfo THEN tx[i] ELSE [tx[i] EXCEPT !.mutated = TRUE]]
    /\ UNCHANGED <<backend, file, backup, flock, in_transaction, handle, mode, writing,
                   lock_file, memory, mbackup, pc>>

Close(i) ==
    /\ Callable(i)
    /\ Apply(IF backend = "json" THEN JSONStorage_close(Cur, i) ELSE Cur)
    /\ last' = Ev("close", i, "ok", None, {}, "ok", NoTxInfo)
    /\ UNCHANGED <<pc, tx>>

\* a begin that has returned or raised: `r` is the state it leaves
BeginDone(i, op, r, okpc, failpc) ==
    /\ Apply(r)
    /\ last' = Ev(op, i, r.err, None, IF r.err = "TransactionInProgress" THEN {} ELSE {"begin"},
                  "ok", NoTxInfo)
    /\ pc' = [pc EXCEPT ![i] = IF r.err = "ok" THEN okpc ELSE failpc]
    /\ tx' = [tx EXCEPT ![i] =
                IF r.err = "ok"
                THEN [pre |-> Visible(Cur, i), cur |-> Visible(Cur, i),
                      text |-> file, stale |-> backup, nested |-> FALSE, mutated |-> FALSE]
                ELSE IF r.err = "TransactionInProgress" /\ tx[i] # NoTxInfo
                THEN [tx[i] EXCEPT !.nested = TRUE]
                ELSE tx[i]]

\* begin called: it returns, raises, or waits in flock(LOCK_EX)
BeginCall(i, op, okpc, failpc, waitpc) ==
    \E f \in FaultsIf(~in_transaction[i], BeginFaults) :
        LET r == Storage_begin(Cur, i, f) IN
        IF r.err # "ok" \/ backend = "memory" THEN BeginDone(i, op, r, okpc, failpc)
        ELSE IF CanLock(r, i) THEN BeginDone(i, op, JSONStorage_locked_begin(r, i, f), okpc, failpc)
        ELSE /\ Apply(r)
             /\ pc' = [pc EXCEPT ![i] = waitpc]
             /\ UNCHANGED <<last, tx>>

Begin(i) ==
    /\ Callable(i)
    /\ BeginCall(i, "begin", pc[i], pc[i], IF pc[i] = "idle" THEN "wait_idle" ELSE "wait_block")

\* flock(LOCK_EX) returns to an instance that waited in begin
BeginResume(i) ==
    /\ pc[i] \in Waiting
    /\ CanLock(Cur, i)
    /\ \E f \in BeginFaults \ {"lock_open"} :
        BeginDone(i, IF pc[i] = "wait_scope" THEN "enter" ELSE "begin",
                  JSONStorage_locked_begin(Cur, i, f),
                  IF pc[i] = "wait_idle" THEN "idle" ELSE "block",
                  IF pc[i] = "wait_block" THEN "block" ELSE "idle")

\* what a commit or rollback of instance i that left the state r does to
\* the remembered transactions
Ended(i, r) ==
    IF r.file # file THEN Wrote(i, NoTx, TRUE) ELSE tx' = [tx EXCEPT ![i] = NoTxInfo]

Commit(i) ==
    /\ Callable(i)
    /\ \E f \in FaultsIf(in_transaction[i], CommitFaults) :
        LET r == Storage_commit(Cur, i, f) IN
        /\ Apply(r)
        /\ last' = Ev("commit", i, r.err, None, IF in_transaction[i] THEN {"commit"} ELSE {}, "ok", tx[i])
        /\ Ended(i, r)
    /\ UNCHANGED pc

Rollback(i) ==
    /\ Callable(i)
    /\ \E f \in FaultsIf(in_transaction[i], RollbackFaults) :
        LET r == Storage_rollback(Cur, i, f) IN
        /\ Apply(r)
        /\ last' = Ev("rollback", i, r.err, None, IF in_transaction[i] THEN {"rollback"} ELSE {}, "ok", tx[i])
        /\ Ended(i, r)
    /\ UNCHANGED pc

\* `with storage.transaction():` entered
ScopeEnter(i) ==
    /\ pc[i] = "idle"
    /\ BeginCall(i, "enter", "block", "idle", "wait_scope")

\* the block of the scope ends: normally (blockErr = "ok") or by raising
ScopeExit(i, blockErr) ==
    /\ pc[i] = "block"
    /\ \E fc \in CommitFaults, fr \in RollbackFaults :
        LET c == IF blockErr = "ok" THEN Storage_commit(Cur, i, fc) ELSE Raise(Cur, blockErr)
            r == Storage_transaction_exit(Cur, i, blockErr, fc, fr)
            ranCommit == blockErr = "ok" /\ in_transaction[i]
            ranRollback == c.err # "ok" /\ c.in_transaction[i]
        IN
        /\ Apply(r)
        /\ last' = Ev("exit", i, r.err, None,
                      (IF ranCommit THEN {"commit"} ELSE {}) \cup (IF ranRollback THEN {"rollback"} ELSE {}),
                      c.err, tx[i])
        /\ Ended(i, r)
    /\ pc' = [pc EXCEPT ![i] = "idle"]

ScopeExitNormal(i) == ScopeExit(i, "ok")
ScopeExitRaise(i) == ScopeExit(i, "BlockError")

\* the process of instance i dies: the kernel closes its descriptors, which
\* releases its lock; the files stay as they are
Crash(i) ==
    /\ backend = "json"
    /\ pc[i] # "dead"
    /\ flock' = flock \ {i}
    /\ in_transaction' = [in_transaction EXCEPT ![i] = FALSE]
    /\ handle' = [handle EXCEPT ![i] = "closed"]
    /\ lock_file' = [lock_file EXCEPT ![i] = "None"]
    /\ pc' = [pc EXCEPT ![i] = "dead"]
    /\ last' = Ev("crash", i, "ok", None, {}, "ok", NoTxInfo)
    /\ tx' = [tx EXCEPT ![i] = NoTxInfo]
    /\ writing' = [writing EXCEPT ![i] = None]
    /\ UNCHANGED <<backend, file, backup, mode, memory, mbackup, heap>>

\* JSONStorage(path, access_mode=m): a new instance on the existing file
Open(i, m) ==
    /\ backend = "json"
    /\ pc[i] = "dead"
    /\ handle' = [handle EXCEPT ![i] = "open"]
    /\ mode' = [mode EXCEPT ![i] = m]
    /\ file' = Opened(file, m)
    /\ pc' = [pc EXCEPT ![i] = "idle"]
    /\ last' = Ev("open", i, "ok", None, {}, "ok", NoTxInfo)
    /\ UNCHANGED <<backend, backup, flock, in_transaction, writing, lock_file,
                   memory, mbackup, heap, tx>>

\* one storage instance and its caller, on either backend
Next ==
    \/ \E i \in Study : Read(i)
    \/ \E i \in Study, s \in Snapshots : Write(i, s)
    \/ \E i \in Study, s \in Snapshots : Mutate(i, s)
    \/ \E i \in Study : Close(i)
    \/ \E i \in Study : Begin(i)
    \/ \E i \in Study : Commit(i)
    \/ \E i \in Study : Rollback(i)
    \/ \E i \in Study : ScopeEnter(i)
    \/ \E i \in Study : ScopeExitNormal(i)
    \/ \E i \in Study : ScopeExitRaise(i)
    \/ \E i \in Study : Crash(i)
    \/ \E i \in Study : Open(i, "r+")

Spec == Init /\ [][Next]_vars

\* all instances on the same path, each in a process of its own, running
\* transactions against each other
InitPeers == Init /\ backend = "json"

\* the snapshot the peers write over the empty file: the empty database
PeerSnapshots == {Snap({})}

NextPeers ==
    \/ \E i \in Inst, s \in PeerSnapshots : Write(i, s)
    \/ \E i \in Inst : Begin(i)
    \/ \E i \in Inst : BeginResume(i)
    \/ \E i \in Inst : Commit(i)
    \/ \E i \in Inst : Rollback(i)
    \/ \E i \in Inst : Crash(i)
    \/ \E i \in Inst : Open(i, "r+")

SpecPeers == InitPeers /\ [][NextPeers]_vars

\* `with storage:` entered
WithEnter(i) ==
    /\ pc[i] = "idle"
    /\ backend = "json" => CanLock(Cur, i)
    /\ \E fb \in BeginFaults, fr \in RollbackFaults :
        LET b == Storage_begin_locked(Cur, i, fb)
            r == Storage_enter(Cur, i, fb, fr)
        IN
        /\ Apply(r)
        /\ last' = Ev("with_enter", i, r.err, None,
                      IF b.err = "ok" THEN {"begin", "rollback"}
                      ELSE IF b.err = "TransactionInProgress" THEN {} ELSE {"begin"},
                      "ok", NoTxInfo)
        /\ pc' = [pc EXCEPT ![i] = IF r.err = "ok" THEN "with" ELSE "idle"]
    /\ UNCHANGED tx

\* the body of `with storage:` ends, normally or by raising
WithExit(i, bodyErr) ==
    /\ pc[i] = "with"
    /\ backend = "json" => CanLock(Cur, i)
    /\ \E fb \in BeginFaults, fr \in RollbackFaults :
        LET b == Storage_begin_locked(Cur, i, fb)
            r == Storage_exit(Cur, i, bodyErr, fb, fr)
        IN
        /\ Apply(r)
        /\ last' = Ev("with_exit", i, r.err, None,
                      IF bodyErr # "ok" \/ b.err = "TransactionInProgress" THEN {}
                      ELSE IF b.err = "ok" THEN {"begin", "rollback"} ELSE {"begin"},
                      bodyErr, NoTxInfo)
    /\ pc' = [pc EXCEPT ![i] = "idle"]
    /\ UNCHANGED tx

WithExitNormal(i) == WithExit(i, "ok")
WithExitRaise(i) == WithExit(i, "BlockError")

\* one storage instance, on either backend, used as a context manager
NextWith ==
    \/ \E i \in Study : Read(i)
    \/ \E i \in Study, s \in Snapshots : Write(i, s)
    \/ \E i \in Study : Begin(i)
    \/ \E i \in Study : Commit(i)
    \/ \E i \in Study : Rollback(i)
    \/ \E i \in Study : WithEnter(i)
    \/ \E i \in Study : WithExitNormal(i)
    \/ \E i \in Study : WithExitRaise(i)

SpecWith == Init /\ [][NextWith]_vars

\* write() of instance i has come to its fsync: what it wrote is in the file,
\* the truncate() is still to come.  A write that raises ends here.
WriteFlush(i, s) ==
    /\ pc[i] = "idle"
    /\ backend = "json"
    /\ LET r == JSONStorage_flush(Cur, i, s) IN
       /\ Apply(r)
       /\ IF r.err = "ok"
          THEN /\ pc' = [pc EXCEPT ![i] = "writing"]
               /\ Wrote(i, s, FALSE)
               /\ UNCHANGED last
          ELSE /\ last' = Ev("write", i, r.err, s, {}, "ok", [NoTxInfo EXCEPT !.pre = Visible(Cur, i)])
               /\ UNCHANGED <<pc, tx>>

\* the truncate() of that write, after which write() returns
WriteTruncate(i) ==
    /\ pc[i] = "writing"
    /\ Apply(JSONStorage_truncate(Cur, i))
    /\ pc' = [pc EXCEPT ![i] = "idle"]
    /\ last' = Ev("write", i, "ok", writing[i], {}, "ok", NoTxInfo)
    /\ UNCHANGED tx

\* instances on the same path, each in a process or thread of its own,
\* one writes, inside or outside a transaction, all read; a write is two
\* steps, so that the reads of the others fall between them
NextSteps ==
    \/ \E i \in Inst : Read(i)
    \/ \E i \in Study, s \in Snapshots : WriteFlush(i, s)
    \/ \E i \in Study : WriteTruncate(i)
    \/ \E i \in Study : Begin(i)
    \/ \E i \in Study : Commit(i)
    \/ \E i \in Study : Rollback(i)

SpecSteps == InitPeers /\ [][NextSteps]_vars

\* all instances on the same path running transactions against each other
\* and crashing, under a fair scheduler: an instance that waits in
\* flock(LOCK_EX) is given the lock if the lock is free again and again
NextLive ==
    \/ \E i \in Inst : Begin(i)
    \/ \E i \in Inst : BeginResume(i)
    \/ \E i \in Inst : Commit(i)
    \/ \E i \in Inst : Rollback(i)
    \/ \E i \in Inst : Crash(i)

SpecLive == InitPeers /\ [][NextLive]_vars /\ \A i \in Inst : SF_vars(BeginResume(i))

\* the file backend in each access mode, on a file that was empty or held a
\* snapshot before the storage was constructed
\* the snapshots written there: the empty database, and one table holding
\* every record (the shortest and the longest serialization)
ModeSnapshots == {Snap({}), Snap({<<"t", RecIds>>})}

InitModes ==
    /\ backend = "json"
    /\ \E m \in Modes, text \in {<<>>} \cup {dumps(s) : s \in ModeSnapshots} : Constructed(m, text)

NextModes ==
    \/ \E i \in Study : Read(i)
    \/ \E i \in Study, s \in ModeSnapshots : Write(i, s)
    \/ \E i \in Study : Close(i)
    \/ \E i \in Study : Begin(i)
    \/ \E i \in Study : Commit(i)
    \/ \E i \in Study : Rollback(i)

SpecModes == InitModes /\ [][NextModes]_vars

(* ---------------- claims ---------------- *)
\* the call that returned last ran the backend rollback logic to its end:
\* a direct rollback that returned, or a scope whose block raised and which
\* re-raised the block's error after rolling back
RollbackCompleted ==
    /\ last.ran = {"rollback"}
    /\ \/ last.op = "rollback" /\ last.err = "ok"
       \/ last.op = "exit" /\ last.err = last.orig

\* C1: rollback law.  Once a rollback has run for a transaction whose begin
\* returned, a read by that instance returns exactly the snapshot (or None)
\* that was visible right before that begin, whatever was written since and
\* whether or not begin found a stale backup file.
C1_RollbackLaw ==
    (RollbackCompleted /\ last.tx # NoTxInfo) => Storage_read(Cur, last.inst) = last.tx.pre

\* a rollback of the file backend completed, for a transaction that began on a
\* stored snapshot, found a stale backup file of another content and wrote
\* another snapshot
C1_Witness ==
    /\ RollbackCompleted
    /\ backend = "json"
    /\ last.tx.stale.exists
    /\ FileValue(last.tx.stale.text) # last.tx.pre
    /\ last.tx.pre \in Snapshots
    /\ last.tx.cur \in Snapshots \ {last.tx.pre}

\* the same for the in-memory backend, begun on None
C1_WitnessMemory ==
    /\ RollbackCompleted
    /\ backend = "memory"
    /\ last.tx.pre = None
    /\ last.tx.cur \in Snapshots

\* the call that returned last ran the backend commit logic to its end: a
\* direct commit, or a scope whose block ended normally
CommitCompleted ==
    /\ last.op \in {"commit", "exit"}
    /\ last.ran = {"commit"}
    /\ last.err = "ok"

\* C2: commit post-state of the file backend.  After a commit that completed
\* for a transaction whose begin returned, a read returns the snapshot the
\* transaction wrote last (the one visible before begin if it wrote none),
\* the backup file does not exist, and the lock is released: flock(LOCK_EX)
\* of any other instance on the path would return at once.
C2_CommitPostState ==
    (CommitCompleted /\ backend = "json" /\ last.tx # NoTxInfo) =>
        /\ last.tx.cur # Foreign => Storage_read(Cur, last.inst) = last.tx.cur
        /\ ~backup.exists
        /\ last.inst \notin flock
        /\ \A j \in Inst \ {last.inst} : CanLock(Cur, j)

\* a commit completed for a transaction that wrote a snapshot other than the
\* one it began on
C2_Witness ==
    /\ CommitCompleted
    /\ backend = "json"
    /\ last.tx.cur \in Snapshots
    /\ last.tx.cur # last.tx.pre

\* C3: write/read round trip, both backends.  Right after write(S) returned,
\* a read returns a value equal to S, and the file of the file backend holds
\* exactly the serialization of S: nothing of a longer older content is left
\* behind it.
C3_WriteReadRoundTrip ==
    (last.op = "write" /\ last.err = "ok") =>
        /\ Storage_read(Cur, last.inst) = last.val
        /\ backend = "json" => file = dumps(last.val)

\* a write of the file backend replaced a snapshot by one whose serialization
\* is shorter
C3_Witness ==
    /\ last.op = "write"
    /\ last.err = "ok"
    /\ backend = "json"
    /\ last.tx.pre \in Snapshots
    /\ Len(dumps(last.tx.pre)) > Len(dumps(last.val))

\* the instances inside a transaction whose begin has returned
InTransaction(info) == {i \in Inst : info[i] # NoTxInfo}

\* C4: mutual exclusion of the file backend.  In every step of every
\* interleaving: at most one instance holds the lock on the lock file, at
\* most one is inside a transaction whose begin has returned and that one
\* holds the lock; an instance that starts to wait in begin has written
\* neither the backup file nor the main file; a waiting begin returns only
\* from a state in which no other instance holds the lock; and the backup
\* file is written only by the begin of the instance that then holds the lock.
C4_MutualExclusion ==
    [][ /\ Cardinality(flock') <= 1
        /\ Cardinality(InTransaction(tx')) <= 1
        /\ InTransaction(tx') \subseteq flock'
        /\ \A i \in Inst :
            /\ pc'[i] \in Waiting => i \notin flock'
            /\ (pc[i] \notin Waiting /\ pc'[i] \in Waiting) => (backup' = backup /\ file' = file)
            /\ (pc[i] \in Waiting /\ pc'[i] \notin Waiting \cup {"dead"}) => flock \ {i} = {}
        /\ (backup'.exists /\ backup' # backup) =>
              \E i \in flock' : i \in InTransaction(tx') \ InTransaction(tx)
      ]_vars

\* one instance is inside its transaction, holding the lock, with its backup
\* file written, while another waits in begin
C4_Witness ==
    \E i, j \in Inst :
        /\ i \in InTransaction(tx)
        /\ i \in flock
        /\ backup.exists
        /\ pc[j] \in Waiting
        /\ in_transaction[j]

\* C5: transaction scope.  When the scope has been left, exactly one of the
\* backend commit and rollback logic has run: commit if and only if the block
\* ended normally, rollback if it raised; the instance is not in a
\* transaction and, on the file backend, does not hold the lock.
C5_ScopeExit ==
    last.op = "exit" =>
        /\ Cardinality(last.ran) = 1
        /\ "commit" \in last.ran <=> last.orig # "BlockError"
        /\ ~in_transaction[last.inst]
        /\ last.inst \notin flock

\* C6: error propagation out of the scope.  A scope left with a failure, of
\* the block or of the commit after it, has rolled back, and the error that
\* reaches the caller is that original error.
C6_OriginalError ==
    (last.op = "exit" /\ last.orig # "ok") =>
        /\ "rollback" \in last.ran
        /\ last.err = last.orig

\* a rollback completed for a transaction during which a second begin had
\* been rejected: a read returns the snapshot of the first begin
C7_Restores ==
    (RollbackCompleted /\ last.tx.nested) => Storage_read(Cur, last.inst) = last.tx.pre

\* C7: no nesting.  A begin (direct, or of the scope helper) called on an
\* instance whose transaction is open raises "transaction already in
\* progress" and changes nothing: flag, backup, lock, files, handles and the
\* remembered snapshot of the first begin stay as they were; a rollback that
\* completes later restores the snapshot of the first begin.
C7_NoNesting ==
    [][ /\ (/\ last' # last
            /\ last'.op \in {"begin", "enter"}
            /\ in_transaction[last'.inst]
            /\ pc[last'.inst] \notin Waiting)
           => /\ last'.err = "TransactionInProgress"
              /\ UNCHANGED progVars
              /\ in_transaction'[last'.inst]
              /\ pc' = pc
              /\ tx'[last'.inst].pre = tx[last'.inst].pre
        /\ C7_Restores'
      ]_vars

\* a second begin was rejected inside a transaction that wrote a snapshot
\* other than the one it began on, and the rollback has completed
C7_Witness ==
    /\ RollbackCompleted
    /\ last.tx.nested
    /\ last.tx.pre \in Snapshots
    /\ last.tx.cur \in Snapshots \ {last.tx.pre}

\* C8: commit or rollback on an instance with no open transaction raises
\* "no transaction in progress", runs no backend logic and changes nothing:
\* files, backup, lock, handles and flags are as before the call.
C8_NoTransaction ==
    [][ (/\ last' # last
         /\ last'.op \in {"commit", "rollback"}
         /\ ~in_transaction[last'.inst])
        => /\ last'.err = "NoTransaction"
           /\ last'.ran = {}
           /\ UNCHANGED progVars
           /\ pc' = pc
      ]_vars

\* a commit or rollback was rejected while a snapshot is stored, a backup
\* file exists and the lock is held (left so by a commit that failed)
C8_Witness ==
    /\ last.op \in {"commit", "rollback"}
    /\ last.err = "NoTransaction"
    /\ FileValue(file) \in Snapshots
    /\ backup.exists
    /\ last.inst \in flock

\* the flag of the instance whose commit or rollback returned or raised last
C9_FlagCleared ==
    last.op \in {"commit", "rollback"} => ~in_transaction[last.inst]

\* C9: after a commit or rollback, however it ended, the in-transaction flag
\* is false, and a begin that follows on the same instance is not rejected
\* with "transaction already in progress".
C9_NeverStuck ==
    [][ /\ C9_FlagCleared'
        /\ (/\ last.op \in {"commit", "rollback"}
            /\ last' # last
            /\ last'.op \in {"begin", "enter"}
            /\ last'.inst = last.inst)
           => last'.err # "TransactionInProgress"
      ]_vars

\* the backend logic of a commit or rollback failed, and the flag is false
C9_Witness ==
    /\ last.op \in {"commit", "rollback"}
    /\ last.ran # {}
    /\ last.err \in {"OSError", "ValueError", "FileNotFoundError"}
    /\ ~in_transaction[last.inst]

\* C10: an instance whose in-transaction flag is false does not hold the
\* lock on the lock file.
C10_LockOnlyInTransaction ==
    \A i \in Inst : ~in_transaction[i] => i \notin flock

\* C11: no partially written snapshot is exposed by the file backend.  In
\* every interleaving of the writes of one instance with the reads of another
\* on the same path, a read does not fail to deserialize: it returns None or
\* a complete snapshot, never the new serialization followed by what is left
\* of a longer older one.
C11_NoPartialSnapshot ==
    (last.op = "read" /\ handle[last.inst] = "open") =>
        /\ last.err = "ok"
        /\ last.val \in Snapshots \cup {None}

\* instance j waits in begin, and the call that returned last is the commit,
\* the rollback or the crash that ended a transaction of the only instance
\* that may still hold the lock
HolderEnded(j) ==
    /\ pc[j] \in Waiting
    /\ last.inst # j
    /\ \/ last.op = "crash"
       \/ last.op \in {"commit", "rollback"} /\ last.ran # {}
    /\ flock \subseteq {last.inst}

\* C12: liveness of lock acquisition, under fair scheduling.  A begin that
\* waits for the lock returns once the holder has committed, rolled back or
\* crashed, unless another instance has opened a transaction of its own
\* before.
C12_BlockedBeginReturns ==
    \A j \in Inst :
        HolderEnded(j) ~> (pc[j] \notin Waiting \/ \E i \in Inst \ {j} : in_transaction[i])

\* C13: close releases every handle of a file-backed instance.  When close
\* has returned, neither the handle of the snapshot file nor the handle of
\* the lock file that an earlier begin opened is open; close does not fail,
\* called a second time or on an instance that never began a transaction.
\* (Stated for a close outside of a transaction, which is what callers are
\* asked to do.)
C13_CloseReleasesAll ==
    (last.op = "close" /\ backend = "json" /\ ~in_transaction[last.inst]) =>
        /\ last.err = "ok"
        /\ handle[last.inst] = "closed"
        /\ lock_file[last.inst] # "open"

\* C14: a write on a file-backed storage opened read-only (mode 'r') fails,
\* inside or outside a transaction, with the write-rejected error (on an open
\* handle) and changes nothing: file, backup file, lock, flag and handles are
\* as before the call, and a read returns what it returned before.
C14_ReadOnlyWrite ==
    [][ \A i \in Inst :
          (/\ last' # last
           /\ last'.op = "write"
           /\ last'.inst = i
           /\ mode[i] = "r")
          => /\ last'.err # "ok"
             /\ handle[i] = "open" => last'.err = "IOError"
             /\ UNCHANGED progVars
             /\ Storage_read(Cur, i)' = Storage_read(Cur, i)
      ]_vars

\* a write was rejected on a read-only storage that is inside a transaction
\* on a file holding a snapshot
C14_Witness ==
    /\ last.op = "write"
    /\ last.err = "IOError"
    /\ mode[last.inst] = "r"
    /\ in_transaction[last.inst]
    /\ backup.exists
    /\ last.inst \in flock
    /\ Storage_read(Cur, last.inst) \in Snapshots

\* C15: rollback restores the file in every access mode.  After a begin that
\* returned, any writes, and a rollback that completed, the content of the
\* main file is the content it had at begin.
C15_RollbackEveryMode ==
    (RollbackCompleted /\ backend = "json" /\ last.tx # NoTxInfo) => file = last.tx.text

\* C16: the cleanup of the file backend's rollback is unconditional.  Whenever
\* the backend rollback logic has run, also when restoring failed partway,
\* the backup file is deleted and the lock is released by the time rollback
\* returns or raises.
C16_RollbackCleanup ==
    (/\ last.op \in {"rollback", "exit"}
     /\ "rollback" \in last.ran
     /\ backend = "json")
    => /\ ~backup.exists
       /\ last.inst \notin flock

\* C17: a begin whose backend start logic failed leaves no open transaction.
\* The error reaches the caller, the flag of the instance is false and the
\* instance does not hold the lock.
C17_FailedBegin ==
    (/\ last.op \in {"begin", "enter"}
     /\ last.err \notin {"ok", "TransactionInProgress"})
    => /\ ~in_transaction[last.inst]
       /\ last.inst \notin flock

\* C19: write replaces the entire snapshot in every access mode that permits
\* reading and writing.  For a file that holds a snapshot, after write(S)
\* returned the file is exactly the serialization of S and a read returns S.
C19_WriteReplaces ==
    (/\ last.op = "write"
     /\ last.err = "ok"
     /\ backend = "json"
     /\ mode[last.inst] \in {"r+", "w+", "a+"}
     /\ last.tx.pre \in Snapshots)
    => /\ file = dumps(last.val)
       /\ Storage_read(Cur, last.inst) = last.val

\* C18: independence of the in-memory backup.  While a transaction is open
\* the backup is an object of its own that holds the snapshot as it was at
\* begin (no backup if there was no snapshot), whatever has been written or
\* changed in place since; with no transaction open there is no backup; and
\* once a rollback has run, a read returns the snapshot as it was at begin.
C18_BackupIndependent ==
    backend = "memory" =>
        /\ \A i \in Inst :
              IF tx[i] = NoTxInfo THEN mbackup[i] = 0
              ELSE IF tx[i].pre = None THEN mbackup[i] = 0
              ELSE /\ mbackup[i] # 0
                   /\ mbackup[i] # memory[i]
                   /\ heap[mbackup[i]] = tx[i].pre
        /\ (RollbackCompleted /\ last.tx # NoTxInfo) =>
              MemoryStorage_read(Cur, last.inst) = last.tx.pre

\* a rollback of the in-memory backend completed for a transaction that
\* began on a snapshot (one a transaction before it had committed or the
\* caller had written) and during which the live object was changed in place
C18_Witness ==
    /\ backend = "memory"
    /\ RollbackCompleted
    /\ last.tx.mutated
    /\ last.tx.pre \in Snapshots
    /\ MemoryStorage_read(Cur, last.inst) = last.tx.pre
    /\ mbackup[last.inst] = 0

\* C20: the storage instance as a context manager behaves like the
\* transaction scope.  When __enter__ has returned, the instance is in a
\* transaction; when __exit__ has returned or raised, that transaction has
\* been completed, by the commit logic if the body ended normally and by the
\* rollback logic if it raised, the error that reaches the caller is the
\* one of the body (none after a normal body whose commit succeeded), and
\* the instance is not in a transaction.
C20_WithStorage ==
    /\ (last.op = "with_enter" /\ last.err = "ok") => in_transaction[last.inst]
    /\ last.op = "with_exit" =>
          /\ last.orig = "ok" => "commit" \in last.ran
          /\ last.orig # "ok" => ("rollback" \in last.ran /\ last.err = last.orig)
          /\ ~in_transaction[last.inst]

====
